---- MODULE Spec2Model ----
(***************************************************************************)
(* A model of the UrlPay payment gateway                                   *)
(* (src/app/bot/payment_gateways/urlpay.py): payment creation and the      *)
(* webhook verification and reconciliation protocol, over the Transaction  *)
(* store whose payment_uuid column the migration 1d5d6e69d5c6 adds.        *)
(*                                                                         *)
(* Every coroutine is cut at its await points: one action is the code that *)
(* runs, without suspension, from the return of one awaited call up to the *)
(* start of the next one (or to the coroutine's return).                   *)
(***************************************************************************)
EXTENDS Integers, Sequences, FiniteSets, TLC

(***************************************************************************)
(* Bounds of the model (not of the program).                               *)
(***************************************************************************)
\* webhook deliveries received in one behaviour
MaxDeliveries == 2

(***************************************************************************)
(* JSON / Python values.  A value read from a JSON body keeps its type, so *)
(* that str(), truthiness and `in` behave as they do in Python.            *)
(***************************************************************************)
JNull == [k |-> "null"]
JStr(s) == [k |-> "str", v |-> s]
JInt(n) == [k |-> "int", v |-> n]
JBool(b) == [k |-> "bool", v |-> b]

\* str() of a Python int
IntStr(n) ==
  CASE n = 0 -> "0" [] n = 1 -> "1" [] n = 2 -> "2" [] n = 3 -> "3"
    [] n = 4 -> "4" [] n = 5 -> "5" [] n = 6 -> "6" [] OTHER -> "7"

\* str(x)
Str(x) ==
  CASE x.k = "str" -> x.v
    [] x.k = "int" -> IntStr(x.v)
    [] x.k = "bool" -> IF x.v THEN "True" ELSE "False"
    [] OTHER -> "None"

\* bool(x): None, "", 0 and False are falsy
Truthy(x) ==
  CASE x.k = "str" -> x.v # ""
    [] x.k = "int" -> x.v # 0
    [] x.k = "bool" -> x.v
    [] OTHER -> FALSE

\* Lower without the case folding
Lower_Identity(s) == s

\* str.lower(), on the strings the model draws payment_status from
Lower(s) ==
  CASE s = "SUCCESS" -> "success"
    [] s = "Cancel" -> "cancel"
    [] s = "None" -> "none"
    [] s = "RUB" -> "rub"
    [] OTHER -> s

(***************************************************************************)
(* Amounts.  A price is an exact decimal, held as its number of            *)
(* thousandths; a string of digits is the sequence of its characters.      *)
(***************************************************************************)
\* the prices create_payment is called with, in thousandths
Prices ==
  (0..19) \cup (995..1004) \cup (9990..10029) \cup {123455, 999994, 999995}

\* quantize to 0.01 rounding half to even
quantize_HalfEven(milli) ==
  LET down == milli \div 10 IN
  IF milli % 10 > 5 \/ (milli % 10 = 5 /\ down % 2 = 1) THEN down + 1 ELSE down

\* Decimal(str(price)).quantize(Decimal("0.01"), rounding=ROUND_HALF_UP): the
\* number of hundredths
quantize(milli) ==
  LET down == milli \div 10 IN
  IF milli % 10 >= 5 THEN down + 1 ELSE down

Digit(d) ==
  CASE d = 0 -> "0" [] d = 1 -> "1" [] d = 2 -> "2" [] d = 3 -> "3" [] d = 4 -> "4"
    [] d = 5 -> "5" [] d = 6 -> "6" [] d = 7 -> "7" [] d = 8 -> "8" [] OTHER -> "9"

RECURSIVE NatChars(_)
NatChars(n) ==
  IF n < 10 THEN <<Digit(n)>> ELSE Append(NatChars(n \div 10), Digit(n % 10))

\* format(amount, ".2f") of an amount of `cents` hundredths
format_2f(cents) ==
  NatChars(cents \div 100) \o <<".", Digit((cents \div 10) % 10), Digit(cents % 10)>>

\* hashlib.sha1(...).hexdigest() of the concatenation of the parts
sha1(parts) == [sha1 |-> parts]

\* Currency.RUB.code
RUB == "RUB"

\* _generate_signature
generate_signature(cfg, amount) ==
  sha1(<<Lower(RUB), amount, Str(cfg.SHOP_ID), Str(cfg.SECRET_KEY)>>)

\* the JSON body POSTed to /v2/payments
Payload(cfg, price, order_uuid) ==
  LET amount_str == format_2f(quantize(price)) IN
  [currency |-> Lower(RUB), amount |-> amount_str, uuid |-> order_uuid,
   shopId |-> cfg.SHOP_ID, sign |-> generate_signature(cfg, amount_str),
   items |-> << [quantity |-> 1, price |-> amount_str] >>]

(***************************************************************************)
(* The Transaction store.  Rows that existed before the migration have a   *)
(* NULL payment_uuid (the column is added nullable); payment_uuid carries  *)
(* a unique constraint.                                                    *)
(***************************************************************************)
PENDING == "PENDING"
SUCCEEDED == "SUCCEEDED"
CANCELED == "CANCELED"

\* payment ids of rows older than the payment_uuid column
LegacyIds == {"1"}
\* the id the provider assigns to the n-th payment it creates
ProviderId(n) == JInt(n + 1)
\* the values str(uuid.uuid4()) returns, in order: each one is fresh
OrderUuids == <<"g1">>

StoreIds == LegacyIds \cup {Str(ProviderId(n)) : n \in 1..Len(OrderUuids)}

\* the column added by upgrade(): nullable, so NULL in every existing row
upgrade == [id \in StoreIds |->
              IF id \in LegacyIds
                THEN [payment_uuid |-> JNull, status |-> PENDING]
                ELSE JNull]

\* Transaction.get_by_id: the row, or None
get_by_id(st, payment_id) ==
  IF payment_id \in DOMAIN st THEN st[payment_id] ELSE JNull

\* the part of the loaded row _verify_callback reads
Snapshot(row) == IF row = JNull THEN JNull ELSE [payment_uuid |-> row.payment_uuid]

\* uq_transactions_payment_uuid: no other row holds this payment_uuid
UniqueUuid(st, payment_id, payment_uuid) ==
  \A id \in DOMAIN st :
    (id # payment_id /\ st[id] # JNull) => st[id].payment_uuid # payment_uuid

(***************************************************************************)
(* Inputs.                                                                 *)
(***************************************************************************)
Workers == {"w1", "w2"}

Configs ==
  { [API_KEY |-> JStr("key"), SHOP_ID |-> JStr("shop"), SECRET_KEY |-> JStr("secret")],
    [API_KEY |-> JStr(""), SHOP_ID |-> JStr("shop"), SECRET_KEY |-> JStr("secret")],
    [API_KEY |-> JStr("key"), SHOP_ID |-> JNull, SECRET_KEY |-> JStr("secret")],
    [API_KEY |-> JStr("key"), SHOP_ID |-> JStr("shop"), SECRET_KEY |-> JStr("")] }

RawStatuses == {JStr("success"), JStr("Cancel"), JStr("paid"), JNull}
RawIds == {JNull, JInt(1)} \cup {JStr(Str(ProviderId(n))) : n \in 1..Len(OrderUuids)}
RawUuids == {JNull, JStr(""), JStr("u1"), JStr("u2")}

\* request.json() raises, or the body is no JSON object
Malformed == [k |-> "malformed"]

\* the webhook bodies that can arrive once the uuids `uuids` were sent out
Bodies(uuids) ==
  [payment_status : RawStatuses, id : RawIds,
   uuid : RawUuids \cup {JStr(u) : u \in uuids}] \cup {Malformed}

\* the provider's record of a payment
ProviderPayments ==
  [status : {JInt(1), JInt(3), JInt(4), JInt(6)}, uuid : {JNull, JStr("u1")}]

\* answers to GET /v2/payments/{id}
FetchResponses ==
  {[status |-> 404, success |-> JNull, payment |-> JNull]}
    \cup [status : {200}, success : {JBool(FALSE), JNull},
          payment : {[status |-> JInt(3), uuid |-> JNull]}]
    \cup [status : {200}, success : {JBool(TRUE)},
          payment : ProviderPayments \cup {JNull}]

\* answers to POST /v2/payments for the n-th payment
CreateResponses(n) ==
  [status : {201, 400}, success : {JBool(TRUE), JBool(FALSE)},
   id : {ProviderId(n), JNull}, paymentUrl : {JStr("url"), JNull}]

(***************************************************************************)
(* State.                                                                  *)
(***************************************************************************)
VARIABLES
  data,         \* the SubscriptionData create_payment is called with
  config,       \* self.config.urlpay
  store,        \* the transactions table: payment id -> row, or JNull
  worker,       \* the webhook_handler coroutines, one per request in flight
  creator,      \* the create_payment coroutine
  issued,       \* the order uuids generated so far
  hook_log,     \* every hook invocation: hook, payment id, payload uuid, fetched status
  n_deliveries  \* webhook requests received

vars == <<data, config, store, worker, creator, issued, hook_log, n_deliveries>>

\* a local variable not assigned yet
Unset == [k |-> "unset"]

\* a request not yet received.  lookups, updates, fetches count the calls of
\* Transaction.get_by_id, Transaction.update and _fetch_payment; hooks lists the
\* hook calls; redelivery tells that the same webhook was accepted before;
\* fetched is the provider's answer to the GET of _fetch_payment; warnings are
\* the uuid warnings _verify_callback logged about the fetched record.
IdleWorker ==
  [pc |-> "idle", payload |-> Unset, payment_status |-> "",
   payment_id |-> "", transaction |-> Unset, fetched |-> Unset, payment |-> Unset,
   warnings |-> {}, verified |-> Unset, response |-> 0, raised |-> "",
   lookups |-> 0, updates |-> 0, fetches |-> 0, hooks |-> <<>>,
   redelivery |-> FALSE]

\* create_payment not called.  posts counts the POSTs to the provider, created
\* the Transaction.create calls that committed; payload is the body POSTed.
IdleCreator ==
  [pc |-> "idle", order_uuid |-> "", payload |-> Unset, response |-> Unset,
   payment_id |-> "",
   posts |-> 0, created |-> 0, result |-> Unset, raised |-> ""]

(***************************************************************************)
(* webhook_handler and _verify_callback, segment by segment.               *)
(***************************************************************************)
\* payload.get("payment_status", ""), str(...).lower()
ParseStatus(payload) ==
  Lower(Str(IF payload.payment_status = JNull THEN JStr("") ELSE payload.payment_status))

\* payment_status in {"success", "cancel"}
Supported(payment_status) == payment_status \in {"success", "cancel"}

\* _verify_callback up to the lookup: the payload carries an id and a uuid
HasId(payload) == payload.id # JNull
\* HasUuid that only asks for the key: an empty uuid passes
HasUuid_PresentOnly(payload) == payload.uuid # JNull

HasUuid(payload) == Truthy(payload.uuid)

\* UuidMismatch without the comparison: any uuid passes
UuidMismatch_Unchecked(transaction, payment_uuid) == FALSE

\* transaction.payment_uuid is set and differs from the payload's
UuidMismatch(transaction, payment_uuid) ==
  /\ Truthy(transaction.payment_uuid)
  /\ Str(transaction.payment_uuid) # Str(payment_uuid)

\* Unbound without the test: every delivery binds its uuid
Unbound_Always(transaction) == TRUE

\* the else branch: the stored row has no payment_uuid yet
Unbound(transaction) == ~Truthy(transaction.payment_uuid)

\* status_map with 3 also among the statuses that confirm "cancel"
status_map_Overlapping(payment_status) ==
  CASE payment_status = "success" -> {JInt(3)}
    [] payment_status = "cancel" -> {JInt(3), JInt(4), JInt(5), JInt(6)}
    [] OTHER -> {}

\* status_map
status_map(payment_status) ==
  CASE payment_status = "success" -> {JInt(3)}
    [] payment_status = "cancel" -> {JInt(4), JInt(5), JInt(6)}
    [] OTHER -> {}

\* StatusMismatch without the re-fetch check: the payload's status is trusted
StatusMismatch_PayloadTrusted(payment_status, payment) == FALSE

\* expected_status and payment.get("status") not in expected_status
StatusMismatch(payment_status, payment) ==
  /\ status_map(payment_status) # {}
  /\ payment.status \notin status_map(payment_status)

\* HookFor with the two branches exchanged
HookFor_Swapped(payment_status) ==
  IF payment_status = "success"
    THEN "handle_payment_canceled" ELSE "handle_payment_succeeded"

\* the hook webhook_handler dispatches to
HookFor(payment_status) ==
  IF payment_status = "success"
    THEN "handle_payment_succeeded" ELSE "handle_payment_canceled"

\* fetch_payment without the test of the success flag
fetch_payment_IgnoresSuccess(api_key, resp) ==
  IF ~Truthy(api_key) THEN JNull
  ELSE IF resp.status # 200 THEN JNull
  ELSE resp.payment

\* _fetch_payment: what it returns for the answer `resp` of the provider
fetch_payment(api_key, resp) ==
  IF ~Truthy(api_key) THEN JNull
  ELSE IF resp.status # 200 THEN JNull
  ELSE IF ~Truthy(resp.success) THEN JNull
  ELSE resp.payment

\* `if not payment`: _fetch_payment returned a record
IsPayment(payment) == payment # JNull

\* return Response(status=...)
Respond(w, status) == [w EXCEPT !.pc = "done", !.response = status]

\* Raise without the except clause: the exception reaches the web server
Raise_Propagates(w, where) == [w EXCEPT !.pc = "done", !.response = 500, !.raised = where]

\* except Exception: return Response(status=400)
Raise(w, where) == [w EXCEPT !.pc = "done", !.response = 400, !.raised = where]

\* _verify_callback returned None: "verification failed", 400
Reject(w) == Respond([w EXCEPT !.verified = JNull], 400)

\* webhook_handler from request.json() to the first store access
Receive(w, body) ==
  LET w0 == [w EXCEPT !.payload = body] IN
  IF body = Malformed THEN Raise(w0, "json")
  ELSE LET w1 == [w0 EXCEPT !.payment_status = ParseStatus(body)] IN
    IF ~Supported(w1.payment_status) THEN Respond(w1, 400)
    ELSE IF ~HasId(body) THEN Reject(w1)
    ELSE LET w2 == [w1 EXCEPT !.payment_id = Str(body.id)] IN
      IF ~HasUuid(body) THEN Reject(w2)
      ELSE [w2 EXCEPT !.pc = "get_by_id", !.lookups = 1]

\* the call of _fetch_payment
CallFetch(w) == [w EXCEPT !.pc = "fetch", !.fetches = @ + 1]

\* AfterLookup without `if not transaction`: an unknown payment goes on to the fetch
AfterLookup_UnknownAccepted(w, transaction) ==
  LET w1 == [w EXCEPT !.transaction = transaction] IN
  IF transaction = JNull THEN CallFetch(w1)
  ELSE IF ~Unbound(transaction)
    THEN IF UuidMismatch(transaction, w.payload.uuid) THEN Reject(w1) ELSE CallFetch(w1)
    ELSE [w1 EXCEPT !.pc = "update", !.updates = @ + 1]

\* AfterLookup that writes the payload's uuid also when the row holds it already
AfterLookup_RebindsOnMatch(w, transaction) ==
  LET w1 == [w EXCEPT !.transaction = transaction] IN
  IF transaction = JNull THEN Reject(w1)
  ELSE IF ~Unbound(transaction) /\ UuidMismatch(transaction, w.payload.uuid)
    THEN Reject(w1)
    ELSE [w1 EXCEPT !.pc = "update", !.updates = @ + 1]

\* _verify_callback from the return of Transaction.get_by_id
AfterLookup(w, transaction) ==
  LET w1 == [w EXCEPT !.transaction = transaction] IN
  IF transaction = JNull THEN Reject(w1)
  ELSE IF ~Unbound(transaction)
    THEN IF UuidMismatch(transaction, w.payload.uuid) THEN Reject(w1) ELSE CallFetch(w1)
    ELSE [w1 EXCEPT !.pc = "update", !.updates = @ + 1]

\* the two warnings about payment.get("uuid"): against the payload's uuid and
\* against transaction.payment_uuid
UuidWarnings(payload, transaction, payment) ==
  LET api_uuid == payment.uuid IN
  (IF Truthy(api_uuid) /\ Str(api_uuid) # Str(payload.uuid)
     THEN {"mismatch with API"} ELSE {})
  \cup
  (IF Truthy(transaction.payment_uuid) /\ Truthy(api_uuid)
        /\ Str(transaction.payment_uuid) # Str(api_uuid)
     THEN {"mismatch between database and API"} ELSE {})

\* AfterFetch that returns None on a uuid warning
AfterFetch_UuidAuthoritative(w, payment) ==
  LET w1 == [w EXCEPT !.payment = payment] IN
  IF ~IsPayment(payment) THEN Reject(w1)
  ELSE LET w2 == [w1 EXCEPT !.warnings = UuidWarnings(w.payload, w.transaction, payment)] IN
    IF w2.warnings # {} THEN Reject(w2)
    ELSE IF StatusMismatch(w.payment_status, payment) THEN Reject(w2)
    ELSE LET w3 == [w2 EXCEPT !.verified = JStr(w.payment_id)] IN
      IF ~Truthy(w3.verified) THEN Respond(w3, 400)
      ELSE [w3 EXCEPT !.pc = "hook",
                      !.hooks = Append(@, <<HookFor(w.payment_status), Str(w3.verified)>>)]

\* AfterFetch that asks the provider once more when it got no record
AfterFetch_RetriesOnNoRecord(w, payment) ==
  LET w1 == [w EXCEPT !.payment = payment] IN
  IF ~IsPayment(payment) THEN (IF w.fetches < 2 THEN CallFetch(w) ELSE Reject(w1))
  ELSE LET w2 == [w1 EXCEPT !.warnings = UuidWarnings(w.payload, w.transaction, payment)] IN
    IF StatusMismatch(w.payment_status, payment) THEN Reject(w2)
    ELSE LET w3 == [w2 EXCEPT !.verified = JStr(w.payment_id)] IN
      IF ~Truthy(w3.verified) THEN Respond(w3, 400)
      ELSE [w3 EXCEPT !.pc = "hook",
                      !.hooks = Append(@, <<HookFor(w.payment_status), Str(w3.verified)>>)]

\* _verify_callback from the return of _fetch_payment to the dispatch of the hook
AfterFetch(w, payment) ==
  LET w1 == [w EXCEPT !.payment = payment] IN
  IF ~IsPayment(payment) THEN Reject(w1)
  ELSE LET w2 == [w1 EXCEPT !.warnings = UuidWarnings(w.payload, w.transaction, payment)] IN
    IF StatusMismatch(w.payment_status, payment) THEN Reject(w2)
    ELSE LET w3 == [w2 EXCEPT !.verified = JStr(w.payment_id)] IN
      IF ~Truthy(w3.verified) THEN Respond(w3, 400)
      ELSE [w3 EXCEPT !.pc = "hook",
                      !.hooks = Append(@, <<HookFor(w.payment_status), Str(w3.verified)>>)]

(***************************************************************************)
(* The collaborators outside the gateway, as the gateway uses them.        *)
(***************************************************************************)
\* Transaction.update(payment_id=..., payment_uuid=...)
TransactionUpdate(st, payment_id, payment_uuid) ==
  [st EXCEPT ![payment_id].payment_uuid = payment_uuid]

\* Transaction.create(payment_id=..., payment_uuid=..., status=PENDING)
TransactionCreate(st, payment_id, payment_uuid) ==
  [st EXCEPT ![payment_id] = [payment_uuid |-> payment_uuid, status |-> PENDING]]

\* _on_payment_succeeded / _on_payment_canceled: the Transaction's terminal state
OnPayment(st, hook, payment_id) ==
  [st EXCEPT ![payment_id].status =
     IF hook = "handle_payment_succeeded" THEN SUCCEEDED ELSE CANCELED]

\* the HTTP client raises (connection error, a body that is no JSON)
NetworkError == [k |-> "error"]

\* the entry of hook_log for the delivery of `payload` accepted on `status`
LogEntry(payload, status) ==
  [hook |-> HookFor(ParseStatus(payload)), payment_id |-> Str(payload.id),
   uuid |-> Str(payload.uuid), status |-> status]

\* a delivery with this status, id and uuid was accepted before
AcceptedBefore(log, body) ==
  /\ body # Malformed
  /\ \E e \in log : \E status \in {e.status} : e = LogEntry(body, status)

\* no coroutine is returning
Running == creator.pc # "done" /\ \A w \in Workers : worker[w].pc # "done"

(***************************************************************************)
(* The webhook: one action per resumption of webhook_handler.              *)
(***************************************************************************)
\* POST URLPAY_WEBHOOK arrives; runs to the Transaction lookup
webhook_handler(w) ==
  /\ Running
  /\ worker[w].pc = "idle"
  /\ n_deliveries < MaxDeliveries
  /\ \E body \in Bodies(issued) :
       worker' = [worker EXCEPT ![w] =
         Receive([IdleWorker EXCEPT !.redelivery = AcceptedBefore(hook_log, body)], body)]
  /\ n_deliveries' = n_deliveries + 1
  /\ UNCHANGED <<data, config, store, creator, issued, hook_log>>

\* Transaction.get_by_id returns (or the session raises)
Transaction_get_by_id(w) ==
  /\ Running
  /\ worker[w].pc = "get_by_id"
  /\ \E db_ok \in BOOLEAN :
       worker' = [worker EXCEPT ![w] =
         IF db_ok
           THEN AfterLookup(worker[w], Snapshot(get_by_id(store, worker[w].payment_id)))
           ELSE Raise(worker[w], "get_by_id")]
  /\ UNCHANGED <<data, config, store, creator, issued, hook_log, n_deliveries>>

\* Transaction_update that binds the loaded object only: nothing is committed
\* before the fetch
Transaction_update_NotCommitted(w) ==
  LET me == worker[w]
      payment_uuid == JStr(Str(me.payload.uuid))
  IN
  /\ Running
  /\ me.pc = "update"
  /\ \E db_ok \in BOOLEAN :
       IF db_ok /\ UniqueUuid(store, me.payment_id, payment_uuid)
         THEN worker' = [worker EXCEPT ![w] =
                CallFetch([me EXCEPT !.transaction.payment_uuid = payment_uuid])]
         ELSE worker' = [worker EXCEPT ![w] = Raise(me, "update")]
  /\ UNCHANGED <<data, config, store, creator, issued, hook_log, n_deliveries>>

\* Transaction_update as a conditional write: a row bound in the meantime is kept
Transaction_update_IfStillUnbound(w) ==
  LET me == worker[w]
      payment_uuid == JStr(Str(me.payload.uuid))
  IN
  /\ Running
  /\ me.pc = "update"
  /\ \E db_ok \in BOOLEAN :
       IF db_ok /\ UniqueUuid(store, me.payment_id, payment_uuid)
         THEN /\ store' = IF Truthy(store[me.payment_id].payment_uuid)
                             THEN store
                             ELSE TransactionUpdate(store, me.payment_id, payment_uuid)
              /\ worker' = [worker EXCEPT ![w] =
                   CallFetch([me EXCEPT !.transaction.payment_uuid = payment_uuid])]
         ELSE /\ store' = store
              /\ worker' = [worker EXCEPT ![w] = Raise(me, "update")]
  /\ UNCHANGED <<data, config, creator, issued, hook_log, n_deliveries>>

\* Transaction.update commits (or raises: the session, the unique constraint)
Transaction_update(w) ==
  LET me == worker[w]
      payment_uuid == JStr(Str(me.payload.uuid))
  IN
  /\ Running
  /\ me.pc = "update"
  /\ \E db_ok \in BOOLEAN :
       IF db_ok /\ UniqueUuid(store, me.payment_id, payment_uuid)
         THEN /\ store' = TransactionUpdate(store, me.payment_id, payment_uuid)
              /\ worker' = [worker EXCEPT ![w] =
                   CallFetch([me EXCEPT !.transaction.payment_uuid = payment_uuid])]
         ELSE /\ store' = store
              /\ worker' = [worker EXCEPT ![w] = Raise(me, "update")]
  /\ UNCHANGED <<data, config, creator, issued, hook_log, n_deliveries>>

\* _fetch_payment returns (or raises); runs to the dispatch of the hook
_fetch_payment(w) ==
  LET me == worker[w] IN
  /\ Running
  /\ me.pc = "fetch"
  /\ \E resp \in FetchResponses \cup {NetworkError} :
       IF Truthy(config.API_KEY) /\ resp = NetworkError
         THEN /\ worker' = [worker EXCEPT ![w] = Raise(me, "fetch")]
              /\ hook_log' = hook_log
         ELSE LET payment == fetch_payment(config.API_KEY, resp)
                  got == IF Truthy(config.API_KEY) THEN resp ELSE Unset
                  after == AfterFetch([me EXCEPT !.fetched = got], payment)
              IN /\ worker' = [worker EXCEPT ![w] = after]
                 /\ hook_log' =
                      IF after.pc = "hook"
                        THEN hook_log \cup {LogEntry(me.payload, payment.status)}
                        ELSE hook_log
  /\ UNCHANGED <<data, config, store, creator, issued, n_deliveries>>

\* handle_payment_succeeded / handle_payment_canceled returns (or raises)
handle_payment(w) ==
  LET me == worker[w] IN
  /\ Running
  /\ me.pc = "hook"
  /\ \E ok \in BOOLEAN :
       IF ok
         THEN /\ store' = OnPayment(store, me.hooks[Len(me.hooks)][1], me.payment_id)
              /\ worker' = [worker EXCEPT ![w] = Respond(me, 200)]
         ELSE /\ store' = store
              /\ worker' = [worker EXCEPT ![w] = Raise(me, "hook")]
  /\ UNCHANGED <<data, config, creator, issued, hook_log, n_deliveries>>

(***************************************************************************)
(* create_payment: one action per resumption.                              *)
(***************************************************************************)
\* CredentialsConfigured without the secret key
CredentialsConfigured_NoSecret(cfg) == Truthy(cfg.API_KEY) /\ Truthy(cfg.SHOP_ID)

\* all([API_KEY, SHOP_ID, SECRET_KEY])
CredentialsConfigured(cfg) ==
  Truthy(cfg.API_KEY) /\ Truthy(cfg.SHOP_ID) /\ Truthy(cfg.SECRET_KEY)

\* raise RuntimeError(...): the call ends without a payment url
Fail(c, where) == [c EXCEPT !.pc = "done", !.raised = where]

\* AfterPost without the paymentUrl check
AfterPost_NoUrlCheck(c, resp) ==
  LET c0 == [c EXCEPT !.response = resp] IN
  IF resp = NetworkError THEN Fail(c0, "post")
  ELSE IF resp.status # 201 \/ ~Truthy(resp.success) THEN Fail(c0, "provider")
  ELSE IF resp.id = JNull THEN Fail(c0, "KeyError")
  ELSE [c0 EXCEPT !.pc = "create", !.payment_id = Str(resp.id)]

\* create_payment from the answer to the POST to the Transaction.create call
AfterPost(c, resp) ==
  LET c0 == [c EXCEPT !.response = resp] IN
  IF resp = NetworkError THEN Fail(c0, "post")
  ELSE IF resp.status # 201 \/ ~Truthy(resp.success) THEN Fail(c0, "provider")
  ELSE IF resp.id = JNull THEN Fail(c0, "KeyError")
  ELSE LET c1 == [c0 EXCEPT !.payment_id = Str(resp.id)] IN
    IF ~Truthy(resp.paymentUrl) THEN Fail(c1, "payment_url")
    ELSE [c1 EXCEPT !.pc = "create"]

\* create_payment is called; checks the credentials, asks the bot its name
create_payment ==
  /\ Running
  /\ creator.pc = "idle"
  /\ Cardinality(issued) < Len(OrderUuids)
  /\ creator' = IF CredentialsConfigured(config)
                  THEN [IdleCreator EXCEPT !.pc = "get_me"]
                  ELSE Fail(IdleCreator, "credentials")
  /\ UNCHANGED <<data, config, store, worker, issued, hook_log, n_deliveries>>

\* bot.get_me() returns (or raises); builds the payload and POSTs it
bot_get_me ==
  /\ Running
  /\ creator.pc = "get_me"
  /\ \E ok \in BOOLEAN :
       IF ok
         THEN LET order_uuid == OrderUuids[Cardinality(issued) + 1] IN
              /\ creator' = [creator EXCEPT !.pc = "post", !.order_uuid = order_uuid,
                                            !.payload = Payload(config, data.price, order_uuid),
                                            !.posts = @ + 1]
              /\ issued' = issued \cup {order_uuid}
         ELSE /\ creator' = Fail(creator, "get_me")
              /\ issued' = issued
  /\ UNCHANGED <<data, config, store, worker, hook_log, n_deliveries>>

\* the provider answers the POST (or the client raises)
session_post ==
  /\ Running
  /\ creator.pc = "post"
  /\ \E resp \in CreateResponses(Cardinality(issued)) \cup {NetworkError} :
       creator' = AfterPost(creator, resp)
  /\ UNCHANGED <<data, config, store, worker, issued, hook_log, n_deliveries>>

\* Transaction_create without payment_uuid=order_uuid: the row is stored unbound
Transaction_create_NoUuid ==
  /\ Running
  /\ creator.pc = "create"
  /\ \E db_ok \in BOOLEAN :
       IF db_ok /\ get_by_id(store, creator.payment_id) = JNull
         THEN /\ store' = [store EXCEPT ![creator.payment_id] =
                            [payment_uuid |-> JNull, status |-> PENDING]]
              /\ creator' = [creator EXCEPT !.pc = "done", !.created = @ + 1,
                                            !.result = creator.response.paymentUrl]
         ELSE /\ store' = store
              /\ creator' = Fail(creator, "create")
  /\ UNCHANGED <<data, config, worker, issued, hook_log, n_deliveries>>

\* Transaction.create commits (or raises: the session, a unique constraint)
Transaction_create ==
  LET payment_uuid == JStr(creator.order_uuid) IN
  /\ Running
  /\ creator.pc = "create"
  /\ \E db_ok \in BOOLEAN :
       IF /\ db_ok
          /\ get_by_id(store, creator.payment_id) = JNull
          /\ UniqueUuid(store, creator.payment_id, payment_uuid)
         THEN /\ store' = TransactionCreate(store, creator.payment_id, payment_uuid)
              /\ creator' = [creator EXCEPT !.pc = "done", !.created = @ + 1,
                                            !.result = creator.response.paymentUrl]
         ELSE /\ store' = store
              /\ creator' = Fail(creator, "create")
  /\ UNCHANGED <<data, config, worker, issued, hook_log, n_deliveries>>

\* the response is sent and the coroutine ends
finish(w) ==
  /\ worker[w].pc = "done"
  /\ worker' = [worker EXCEPT ![w] = IdleWorker]
  /\ UNCHANGED <<data, config, store, creator, issued, hook_log, n_deliveries>>

finish_create ==
  /\ creator.pc = "done"
  /\ creator' = IdleCreator
  /\ UNCHANGED <<data, config, store, worker, issued, hook_log, n_deliveries>>

(***************************************************************************)
(* The system.                                                             *)
(***************************************************************************)
Init ==
  /\ data = [price |-> 10005]
  /\ config \in Configs
  /\ store = upgrade
  /\ worker = [w \in Workers |-> IdleWorker]
  /\ creator = IdleCreator
  /\ issued = {}
  /\ hook_log = {}
  /\ n_deliveries = 0

Next ==
  \/ \E w \in Workers : webhook_handler(w)
  \/ \E w \in Workers : Transaction_get_by_id(w)
  \/ \E w \in Workers : Transaction_update(w)
  \/ \E w \in Workers : _fetch_payment(w)
  \/ \E w \in Workers : handle_payment(w)
  \/ \E w \in Workers : finish(w)
  \/ finish_create
  \/ create_payment
  \/ bot_get_me
  \/ session_post
  \/ Transaction_create

Spec == Init /\ [][Next]_vars

\* the same system with the webhook requests served one after another
NextSeq ==
  \/ webhook_handler("w1")
  \/ Transaction_get_by_id("w1")
  \/ Transaction_update("w1")
  \/ _fetch_payment("w1")
  \/ handle_payment("w1")
  \/ finish("w1")
  \/ finish_create
  \/ create_payment
  \/ bot_get_me
  \/ session_post
  \/ Transaction_create

SeqSpec == Init /\ [][NextSeq]_vars

\* create_payment alone, called with every price of Prices
InitPrices ==
  /\ data \in [price : Prices]
  /\ config \in Configs
  /\ store = upgrade
  /\ worker = [w \in Workers |-> IdleWorker]
  /\ creator = IdleCreator
  /\ issued = {}
  /\ hook_log = {}
  /\ n_deliveries = 0

NextCreate ==
  \/ create_payment
  \/ bot_get_me
  \/ session_post
  \/ Transaction_create
  \/ finish_create

CreateSpec == InitPrices /\ [][NextCreate]_vars

\* a resumption of the request w: the call it awaits returns or raises
WorkerStep(w) ==
  \/ Transaction_get_by_id(w)
  \/ Transaction_update(w)
  \/ _fetch_payment(w)
  \/ handle_payment(w)
  \/ finish(w)

\* the event loop resumes every coroutine whose awaited call has ended, and
\* every awaited call ends (store and HTTP client return or raise), however
\* often other coroutines return in between
LiveSpec ==
  /\ Spec
  /\ \A w \in Workers : SF_vars(WorkerStep(w))
  /\ WF_vars(finish_create)

\* the webhook requests alone
NextWebhook == \E w \in Workers : webhook_handler(w) \/ WorkerStep(w)

LiveWebhookSpec ==
  /\ Init
  /\ [][NextWebhook]_vars
  /\ \A w \in Workers : WF_vars(WorkerStep(w))

(***************************************************************************)
(* What the properties below read off a request.                           *)
(***************************************************************************)
\* the numeric provider statuses that confirm a parsed payload status
ExpectedCodes(payment_status) ==
  IF payment_status = "success" THEN {JInt(3)}
  ELSE IF payment_status = "cancel" THEN {JInt(4), JInt(5), JInt(6)}
  ELSE {}

\* the request is a JSON object
IsPayload(r) == r.payload \notin {Unset, Malformed}

\* the provider fetch of this request returned a record
Fetched(r) == r.payment \notin {Unset, JNull}

\* the lookup of this request found a Transaction
Found(r) == r.transaction \notin {Unset, JNull}

\* the request ended REJECTED / ACCEPTED
Rejected(r) == r.pc = "done" /\ r.response = 400
Accepted(r) == r.verified \notin {Unset, JNull}

(***************************************************************************)
(* C1.  A succeeded/canceled hook is invoked only if, within the same      *)
(* delivery, the provider fetch returned a record whose numeric status is  *)
(* in the set expected for the payload's parsed status (success -> {3},    *)
(* cancel -> {4,5,6}); a fetched status outside that set ends the delivery *)
(* REJECTED with 400 and no hook.  Holds for every delivery of every       *)
(* sequence: hook_log keeps all of them.                                   *)
(***************************************************************************)
C1_HookOnlyOnConfirmedStatus ==
  /\ \A w \in Workers :
       LET r == worker[w] IN
       /\ r.hooks # <<>> =>
            /\ Fetched(r)
            /\ r.payment.status \in ExpectedCodes(Lower(Str(r.payload.payment_status)))
       /\ (Fetched(r) /\ r.payment.status \notin
                           ExpectedCodes(Lower(Str(r.payload.payment_status)))) =>
            /\ Rejected(r)
            /\ r.hooks = <<>>
  /\ \A e \in hook_log :
       /\ e.hook = "handle_payment_succeeded" => e.status = JInt(3)
       /\ e.hook = "handle_payment_canceled" => e.status \in {JInt(4), JInt(5), JInt(6)}

\* a "success" webhook whose fresh fetch says status 1: rejected, no hook
C1_Witness ==
  \E w \in Workers :
    /\ Rejected(worker[w])
    /\ IsPayload(worker[w])
    /\ worker[w].payload.payment_status = JStr("success")
    /\ Fetched(worker[w])
    /\ worker[w].payment.status = JInt(1)
    /\ worker[w].hooks = <<>>

(***************************************************************************)
(* C2.  A webhook whose payload uuid differs (as a string) from the        *)
(* payment_uuid stored on the Transaction found for its payment id is      *)
(* REJECTED with 400; the delivery makes no Transaction update, no         *)
(* provider fetch and no hook call.                                        *)
(***************************************************************************)
C2_UuidMismatchRejected ==
  \A w \in Workers :
    LET r == worker[w] IN
    (/\ Found(r)
     /\ r.transaction.payment_uuid \notin {JNull, JStr("")}
     /\ Str(r.transaction.payment_uuid) # Str(r.payload.uuid)) =>
      /\ Rejected(r)
      /\ r.updates = 0
      /\ r.fetches = 0
      /\ r.hooks = <<>>

C2_Witness ==
  \E w \in Workers :
    /\ Found(worker[w])
    /\ worker[w].transaction.payment_uuid = JStr("u1")
    /\ worker[w].payload.uuid = JStr("u2")
    /\ Rejected(worker[w])

(***************************************************************************)
(* C3.  A webhook whose payment id has no Transaction in the store is      *)
(* REJECTED with 400; the delivery creates and updates no Transaction,     *)
(* makes no provider fetch and calls no hook.                              *)
(***************************************************************************)
C3_UnknownPaymentRejected ==
  \A w \in Workers :
    LET r == worker[w] IN
    r.transaction = JNull =>
      /\ Rejected(r)
      /\ r.updates = 0
      /\ r.fetches = 0
      /\ r.hooks = <<>>

C3_Witness ==
  \E w \in Workers :
    /\ worker[w].transaction = JNull
    /\ worker[w].lookups = 1
    /\ store[worker[w].payment_id] = JNull
    /\ Rejected(worker[w])

(***************************************************************************)
(* C4.  A Transaction's payment_uuid, once it holds a non-empty value,     *)
(* never changes to a different value, whatever the interleaving of        *)
(* webhook deliveries and payment creations.                               *)
(***************************************************************************)
C4_UuidNeverChanges ==
  [][\A id \in StoreIds :
       (store[id] # JNull /\ store[id].payment_uuid \notin {JNull, JStr("")}) =>
         store'[id].payment_uuid = store[id].payment_uuid]_vars

(***************************************************************************)
(* C5.  Deliveries processed one after another, for a Transaction with no  *)
(* payment_uuid: the delivery whose update commits sets payment_uuid to    *)
(* its uuid U; from then on the value stays; a delivery that finds the     *)
(* Transaction bound to its own uuid passes the uuid check (the fetch is   *)
(* made) and is ACCEPTED when the fetched status matches; a delivery that  *)
(* finds it bound to another uuid is REJECTED.                             *)
(***************************************************************************)
C5_Bound(r) == Found(r) /\ r.updates = 0

C5_BindThenVerify ==
  /\ [](\A w \in Workers :
         LET r == worker[w] IN
         /\ (r.updates = 1 /\ r.pc \in {"fetch", "hook", "done"} /\ r.raised # "update") =>
              store[r.payment_id].payment_uuid = JStr(Str(r.payload.uuid))
         /\ (C5_Bound(r) /\ Str(r.transaction.payment_uuid) = Str(r.payload.uuid)) =>
              /\ r.fetches = 1
              /\ (Fetched(r) /\ r.payment.status \in ExpectedCodes(r.payment_status)) =>
                   (Accepted(r) /\ r.hooks # <<>>)
         /\ (C5_Bound(r) /\ Str(r.transaction.payment_uuid) # Str(r.payload.uuid)) =>
              Rejected(r))
  /\ [][\A id \in StoreIds :
          (store[id] # JNull /\ store[id].payment_uuid \notin {JNull, JStr("")}) =>
            store'[id] = [store'[id] EXCEPT !.payment_uuid = store[id].payment_uuid]]_vars

\* the legacy row was bound to u1 by an earlier delivery; this one carries u2
C5_Witness ==
  /\ store["1"].payment_uuid = JStr("u1")
  /\ worker["w1"].payment_id = "1"
  /\ worker["w1"].payload.uuid = JStr("u2")
  /\ C5_Bound(worker["w1"])
  /\ Rejected(worker["w1"])

(***************************************************************************)
(* C6.  Every webhook delivery ends with one HTTP response: 200 when the   *)
(* delivery is ACCEPTED and its hook returned, 400 when it is REJECTED at  *)
(* any step, when the body is malformed, and when an exception is raised   *)
(* (body parsing, store access, fetch, hook); no other outcome exists.     *)
(***************************************************************************)
C6_AlwaysAnswered ==
  \A w \in Workers :
    LET r == worker[w] IN
    /\ r.pc # "done" => (r.response = 0 /\ r.raised = "")
    /\ r.pc = "done" =>
         /\ r.response \in {200, 400}
         /\ r.response = 200 <=> (Accepted(r) /\ r.raised = "")
         /\ r.raised # "" => r.response = 400
         /\ r.payload = Malformed => r.response = 400

\* the hook raised: the handler answers 400
C6_Witness ==
  \E w \in Workers :
    /\ worker[w].pc = "done"
    /\ worker[w].raised = "hook"
    /\ worker[w].response = 400

(***************************************************************************)
(* C7.  An ACCEPTED delivery invokes exactly one hook, once: the one named *)
(* by the status parsed from the payload (handle_payment_succeeded for     *)
(* "success", handle_payment_canceled for "cancel"), with the payload's    *)
(* payment id.  A delivery that is not ACCEPTED invokes no hook.           *)
(***************************************************************************)
C7_HookOf(payload) ==
  IF Lower(Str(payload.payment_status)) = "success"
    THEN "handle_payment_succeeded" ELSE "handle_payment_canceled"

C7_ExactlyOneHook ==
  \A w \in Workers :
    LET r == worker[w] IN
    /\ Accepted(r) => r.hooks = << <<C7_HookOf(r.payload), Str(r.payload.id)>> >>
    /\ ~Accepted(r) => r.hooks = <<>>

C7_Witness ==
  \E w \in Workers :
    /\ worker[w].pc = "done"
    /\ worker[w].response = 200
    /\ worker[w].payload.payment_status = JStr("Cancel")
    /\ worker[w].hooks = << <<"handle_payment_canceled", "1">> >>

(***************************************************************************)
(* C8.  create_payment creates exactly one Transaction (payment_id = the   *)
(* provider's id, payment_uuid = the generated order_uuid, status PENDING) *)
(* per successful call and none on a failing call; the Transaction is      *)
(* created only after the provider answered 201 with success true and a    *)
(* non-empty paymentUrl.                                                   *)
(***************************************************************************)
C8_OneTransactionPerSuccess ==
  LET c == creator IN
  /\ c.created \in {0, 1}
  /\ (c.pc = "create" \/ c.created = 1) =>
       /\ c.response \notin {Unset, NetworkError}
       /\ c.response.status = 201
       /\ c.response.success = JBool(TRUE)
       /\ c.response.paymentUrl \notin {JNull, JStr("")}
       /\ c.payment_id = Str(c.response.id)
  /\ (c.pc = "done" /\ c.raised = "") =>
       /\ c.created = 1
       /\ store[c.payment_id] = [payment_uuid |-> JStr(c.order_uuid), status |-> PENDING]
  /\ (c.pc = "done" /\ c.raised # "") =>
       /\ c.created = 0
       /\ c.payment_id # "" => store[c.payment_id] = JNull

C8_Witness ==
  /\ creator.pc = "done"
  /\ creator.raised = ""
  /\ creator.created = 1
  /\ store["2"] = [payment_uuid |-> JStr("g1"), status |-> PENDING]

(***************************************************************************)
(* C9.  create_payment called while any of API key, shop id or secret key  *)
(* is absent or empty fails at once: nothing is awaited, no POST to the    *)
(* provider is attempted, no order uuid is generated and no Transaction is *)
(* created.                                                                *)
(***************************************************************************)
C9_Blank(x) == x \in {JNull, JStr("")}

C9_NoCredentialsNoCall ==
  (C9_Blank(config.API_KEY) \/ C9_Blank(config.SHOP_ID) \/ C9_Blank(config.SECRET_KEY)) =>
    /\ creator.pc \in {"idle", "done"}
    /\ creator.pc = "done" => creator.raised = "credentials"
    /\ creator.posts = 0
    /\ creator.created = 0
    /\ issued = {}
    /\ \A id \in StoreIds \ LegacyIds : store[id] = JNull

C9_Witness ==
  /\ config.SECRET_KEY = JStr("")
  /\ creator.pc = "done"
  /\ creator.raised = "credentials"
  /\ creator.posts = 0

(***************************************************************************)
(* C10.  Processing the same success webhook again after it was ACCEPTED   *)
(* (same payment id and uuid, the provider still says 3, nothing raises):  *)
(* it is ACCEPTED again with 200, the reconciler writes nothing to the     *)
(* store, and the Transaction is as the first processing left it: bound to *)
(* the same uuid, SUCCEEDED.                                               *)
(***************************************************************************)
C10_RedeliveryIdempotent ==
  \A w \in Workers :
    LET r == worker[w] IN
    (/\ r.redelivery
     /\ r.payment_status = "success"
     /\ r.pc = "done"
     /\ r.raised = ""
     /\ r.payment # JNull
     /\ Fetched(r) => r.payment.status = JInt(3)) =>
      /\ r.response = 200
      /\ Accepted(r)
      /\ r.updates = 0
      /\ r.hooks = << <<"handle_payment_succeeded", r.payment_id>> >>
      /\ store[r.payment_id] = [payment_uuid |-> JStr(Str(r.payload.uuid)),
                                status |-> SUCCEEDED]

C10_Witness ==
  /\ worker["w1"].redelivery
  /\ worker["w1"].payment_status = "success"
  /\ worker["w1"].pc = "done"
  /\ worker["w1"].response = 200
  /\ worker["w1"].updates = 0
  /\ store[worker["w1"].payment_id].status = SUCCEEDED

(***************************************************************************)
(* C11.  A webhook whose payment_status, lower-cased, is not "success" or  *)
(* "cancel" (an absent field included) is REJECTED with 400 at once: no    *)
(* lookup, no hook.  A value that differs from "success"/"cancel" only in  *)
(* letter case is processed as that status.                                *)
(***************************************************************************)
\* what the raw payment_status values of the model mean
C11_Means(raw) ==
  IF raw = JStr("success") THEN "success"
  ELSE IF raw = JStr("Cancel") THEN "cancel"
  ELSE ""

C11_UnsupportedStatusRejected ==
  \A w \in Workers :
    LET r == worker[w] IN
    IsPayload(r) =>
      /\ C11_Means(r.payload.payment_status) = "" =>
           /\ Rejected(r)
           /\ r.raised = ""
           /\ r.lookups = 0
           /\ r.hooks = <<>>
      /\ C11_Means(r.payload.payment_status) # "" =>
           /\ r.payment_status = C11_Means(r.payload.payment_status)
           /\ (r.payload.id # JNull /\ r.payload.uuid \notin {JNull, JStr("")}) =>
                r.lookups = 1

\* "Cancel" has reached the canceled hook while a webhook without
\* payment_status is answered 400
C11_Witness ==
  \E w, v \in Workers :
    /\ IsPayload(worker[w])
    /\ worker[w].payload.payment_status = JStr("Cancel")
    /\ worker[w].pc = "hook"
    /\ worker[w].hooks = << <<"handle_payment_canceled", worker[w].payment_id>> >>
    /\ IsPayload(worker[v])
    /\ worker[v].payload.payment_status = JNull
    /\ Rejected(worker[v])
    /\ worker[v].lookups = 0

(***************************************************************************)
(* C12.  Two concurrent deliveries for one payment id whose Transaction    *)
(* has no payment_uuid can both read it as unbound before either update    *)
(* commits.  Each delivery that read "unbound" passes the uuid step and    *)
(* issues the bind update whatever the other one did meanwhile; an update  *)
(* that commits stores its own uuid over whatever the row holds (the last  *)
(* writer's value stays), and each of the deliveries is ACCEPTED when its  *)
(* fetched status matches.                                                 *)
(***************************************************************************)
C12_BindRace ==
  /\ [](\A w \in Workers :
         LET r == worker[w] IN
         ((Found(r) /\ r.transaction.payment_uuid \in {JNull, JStr("")})
            \/ r.updates = 1) =>
           /\ r.updates = 1
           /\ (r.pc = "update" \/ r.raised = "update" \/ r.fetches = 1)
           /\ (Fetched(r) /\ r.payment.status \in ExpectedCodes(r.payment_status)) =>
                (Accepted(r) /\ r.hooks # <<>>))
  /\ [][\A w \in Workers :
          (worker[w].pc = "update" /\ worker'[w].pc = "fetch") =>
            store'[worker[w].payment_id].payment_uuid = JStr(Str(worker[w].payload.uuid))]_vars

\* both deliveries for the legacy row bound it, u1 first and u2 last, and both
\* are ACCEPTED
C12_Witness ==
  /\ worker["w1"].payment_id = "1" /\ worker["w2"].payment_id = "1"
  /\ worker["w1"].updates = 1 /\ worker["w2"].updates = 1
  /\ worker["w1"].payload.uuid = JStr("u1")
  /\ worker["w2"].payload.uuid = JStr("u2")
  /\ worker["w1"].transaction.payment_uuid = JStr("u1")
  /\ store["1"].payment_uuid = JStr("u2")
  /\ Accepted(worker["w1"]) /\ Accepted(worker["w2"])
  /\ worker["w1"].pc = "hook" /\ worker["w2"].pc = "hook"

(***************************************************************************)
(* C13.  When the provider fetch yields no record (the API key is not      *)
(* configured, the HTTP status is not 200, the success flag is missing or  *)
(* false, or the payment field is missing), _fetch_payment returns None    *)
(* without raising, the delivery is REJECTED with 400 and no hook is       *)
(* invoked; it is never ACCEPTED.                                          *)
(***************************************************************************)
C13_NoRecord(r) ==
  \/ config.API_KEY \in {JNull, JStr("")}
  \/ r.fetched.status # 200
  \/ r.fetched.success \in {JNull, JBool(FALSE)}
  \/ r.fetched.payment = JNull

C13_FetchFailureRejected ==
  \A w \in Workers :
    LET r == worker[w] IN
    (r.fetches = 1 /\ r.pc # "fetch" /\ r.raised # "fetch" /\ C13_NoRecord(r)) =>
      /\ r.payment = JNull
      /\ Rejected(r)
      /\ r.raised = ""
      /\ ~Accepted(r)
      /\ r.hooks = <<>>

\* the provider answered 200 with success false and a payment in status 3
C13_Witness ==
  \E w \in Workers :
    /\ worker[w].fetches = 1
    /\ worker[w].fetched \notin {Unset, NetworkError}
    /\ worker[w].fetched.status = 200
    /\ worker[w].fetched.success = JBool(FALSE)
    /\ worker[w].fetched.payment # JNull
    /\ worker[w].payment_status = "success"
    /\ Rejected(worker[w])
    /\ worker[w].hooks = <<>>

(***************************************************************************)
(* C14.  The uuid of the fetched provider record is advisory: a delivery   *)
(* that passed the stored-uuid check (its fetch was made) and whose        *)
(* fetched status is in the expected set is ACCEPTED and its hook called,  *)
(* whether the record's uuid equals the payload's uuid and the             *)
(* Transaction's payment_uuid, differs from them or is missing; a          *)
(* differing uuid only leaves warnings.                                    *)
(***************************************************************************)
C14_ApiUuidAdvisory ==
  \A w \in Workers :
    LET r == worker[w] IN
    (r.fetches = 1 /\ Fetched(r)
       /\ r.payment.status \in ExpectedCodes(r.payment_status)) =>
      /\ Accepted(r)
      /\ r.hooks # <<>>
      /\ r.pc = "done" => (r.response = 200 \/ r.raised = "hook")
      /\ r.warnings # {} <=>
           (r.payment.uuid \notin {JNull, JStr("")}
              /\ r.payment.uuid.v # r.payload.uuid.v)

\* the provider's record carries u1, the webhook and the Transaction u2
C14_Witness ==
  \E w \in Workers :
    /\ Fetched(worker[w])
    /\ worker[w].payment.uuid = JStr("u1")
    /\ worker[w].payload.uuid = JStr("u2")
    /\ worker[w].transaction.payment_uuid = JStr("u2")
    /\ worker[w].warnings = {"mismatch with API", "mismatch between database and API"}
    /\ worker[w].pc = "done"
    /\ worker[w].response = 200

(***************************************************************************)
(* C15.  A delivery only moves forward: RECEIVED, PARSED (lookup),         *)
(* UUID_BOUND (update or verify), STATUS_FETCHED (fetch), then one         *)
(* terminal state, ACCEPTED (200) or REJECTED (400), which every delivery  *)
(* reaches.  Nothing is retried: at most one Transaction lookup, one       *)
(* Transaction update and one provider fetch per delivery, in that order,  *)
(* and the fetch is made only after the lookup found a Transaction and     *)
(* the uuid was bound or verified.                                         *)
(***************************************************************************)
\* the positions a request can move to from the position pc
C15_Forward(pc) ==
  CASE pc = "idle" -> {"get_by_id", "done"}
    [] pc = "get_by_id" -> {"update", "fetch", "done"}
    [] pc = "update" -> {"fetch", "done"}
    [] pc = "fetch" -> {"hook", "done"}
    [] pc = "hook" -> {"done"}
    [] OTHER -> {"idle"}

C15_ForwardOnly ==
  /\ [](\A w \in Workers :
         LET r == worker[w] IN
         /\ r.lookups \in {0, 1} /\ r.updates \in {0, 1} /\ r.fetches \in {0, 1}
         /\ r.updates = 1 => (r.lookups = 1 /\ Found(r))
         /\ r.fetches = 1 =>
              /\ r.lookups = 1
              /\ Found(r)
              /\ r.transaction.payment_uuid = JStr(r.payload.uuid.v)
              /\ r.pc \in {"fetch", "hook", "done"}
         /\ r.pc \in {"hook"} => (r.fetches = 1 /\ Fetched(r))
         /\ r.pc = "done" => r.response \in {200, 400})
  /\ [][\A w \in Workers :
          /\ worker'[w].pc # worker[w].pc => worker'[w].pc \in C15_Forward(worker[w].pc)
          /\ worker'[w].pc # "idle" =>
               /\ worker'[w].lookups >= worker[w].lookups
               /\ worker'[w].updates >= worker[w].updates
               /\ worker'[w].fetches >= worker[w].fetches
          /\ worker'[w].updates > worker[w].updates => worker[w].fetches = 0
          /\ worker'[w].lookups > worker[w].lookups =>
               (worker[w].updates = 0 /\ worker[w].fetches = 0)]_vars
  /\ \A w \in Workers : (worker[w].pc # "idle") ~> (worker[w].pc = "done")

\* a delivery that went through lookup, update and fetch and ended ACCEPTED
C15_Witness ==
  \E w \in Workers :
    /\ worker[w].pc = "done"
    /\ worker[w].response = 200
    /\ worker[w].lookups = 1
    /\ worker[w].updates = 1
    /\ worker[w].fetches = 1

(***************************************************************************)
(* C16.  A webhook without the id field, or without a non-empty uuid       *)
(* field, is REJECTED with 400 before any store access: the delivery makes *)
(* no Transaction lookup, no Transaction update, no provider fetch and no  *)
(* hook call.  The same holds for a delivery rejected at status parsing.   *)
(***************************************************************************)
C16_MissingIdentifiersRejected ==
  \A w \in Workers :
    LET r == worker[w] IN
    (/\ IsPayload(r)
     /\ \/ r.payload.id = JNull
        \/ r.payload.uuid \in {JNull, JStr("")}
        \/ r.payment_status \notin {"success", "cancel"}) =>
      /\ Rejected(r)
      /\ r.raised = ""
      /\ r.lookups = 0
      /\ r.updates = 0
      /\ r.fetches = 0
      /\ r.hooks = <<>>
      /\ r.transaction = Unset

\* a success webhook for the legacy row with an empty uuid
C16_Witness ==
  \E w \in Workers :
    /\ IsPayload(worker[w])
    /\ worker[w].payload.payment_status = JStr("success")
    /\ worker[w].payload.id = JInt(1)
    /\ worker[w].payload.uuid = JStr("")
    /\ Rejected(worker[w])
    /\ worker[w].lookups = 0
    /\ store["1"].payment_uuid = JNull

(***************************************************************************)
(* C17.  The amount sent to the provider is data.price rounded half-up to  *)
(* 2 decimal places, written with exactly 2 fractional digits (10.005 is   *)
(* "10.01", 10 is "10.00"); the same string is the payload's amount, the   *)
(* price of its single line item and the amount the signature is made of.  *)
(***************************************************************************)
C17_DigitValue(ch) ==
  CASE ch = "0" -> 0 [] ch = "1" -> 1 [] ch = "2" -> 2 [] ch = "3" -> 3
    [] ch = "4" -> 4 [] ch = "5" -> 5 [] ch = "6" -> 6 [] ch = "7" -> 7
    [] ch = "8" -> 8 [] ch = "9" -> 9 [] OTHER -> -1

\* the number a sequence of digits denotes
RECURSIVE C17_Value(_)
C17_Value(s) ==
  IF s = <<>> THEN 0
  ELSE 10 * C17_Value(SubSeq(s, 1, Len(s) - 1)) + C17_DigitValue(s[Len(s)])

\* s is a fixed-point numeral with exactly two fractional digits
C17_FixedPoint(s) ==
  /\ Len(s) >= 4
  /\ s[Len(s) - 2] = "."
  /\ \A i \in (1..Len(s)) \ {Len(s) - 2} : C17_DigitValue(s[i]) >= 0
  /\ (Len(s) > 4 => s[1] # "0")

\* the hundredths s denotes
C17_Cents(s) ==
  100 * C17_Value(SubSeq(s, 1, Len(s) - 3)) + C17_Value(SubSeq(s, Len(s) - 1, Len(s)))

C17_AmountHalfUp ==
  creator.payload # Unset =>
    LET s == creator.payload.amount IN
    /\ C17_FixedPoint(s)
    /\ 10 * C17_Cents(s) - 5 <= data.price
    /\ data.price < 10 * C17_Cents(s) + 5
    /\ data.price = 10005 => s = <<"1", "0", ".", "0", "1">>
    /\ data.price = 10000 => s = <<"1", "0", ".", "0", "0">>
    /\ Len(creator.payload.items) = 1
    /\ creator.payload.items[1].price = s
    /\ creator.payload.sign.sha1[2] = s

\* 10.005 was sent as "10.01"
C17_Witness ==
  /\ data.price = 10005
  /\ creator.pc = "post"
  /\ creator.payload # Unset
  /\ creator.payload.amount = <<"1", "0", ".", "0", "1">>
  /\ creator.payload.items[1].price = <<"1", "0", ".", "0", "1">>

(***************************************************************************)
(* C18.  The uuid bind is committed before the provider fetch.  A delivery *)
(* for an unbound Transaction that is then REJECTED at the fetch or at the *)
(* status validation leaves payment_uuid set to its payload uuid; any      *)
(* later delivery for that payment id with another uuid is REJECTED at the *)
(* uuid check, before any fetch, whatever the provider's status is.        *)
(***************************************************************************)
C18_BindSurvivesRejection ==
  \A w \in Workers :
    LET r == worker[w] IN
    /\ (r.updates = 1 /\ r.fetches = 1) =>
         store[r.payment_id].payment_uuid = JStr(r.payload.uuid.v)
    /\ (r.updates = 1 /\ r.fetches = 1 /\ Rejected(r) /\ ~Accepted(r)) =>
         /\ r.raised \in {"", "fetch"}
         /\ r.hooks = <<>>
         /\ store[r.payment_id].payment_uuid = JStr(r.payload.uuid.v)
    /\ (/\ Found(r)
        /\ r.updates = 0
        /\ r.transaction.payment_uuid.v # r.payload.uuid.v) =>
         /\ store[r.payment_id].payment_uuid = r.transaction.payment_uuid
         /\ Rejected(r)
         /\ r.fetches = 0
         /\ r.hooks = <<>>

\* the legacy row holds u1 and no delivery for it was ever ACCEPTED: the one
\* that bound it was rejected after the bind; this one, with u2, is rejected
C18_Witness ==
  /\ store["1"] = [payment_uuid |-> JStr("u1"), status |-> PENDING]
  /\ \A e \in hook_log : e.payment_id # "1"
  /\ worker["w1"].payment_id = "1"
  /\ worker["w1"].payment_status = "success"
  /\ worker["w1"].payload.uuid = JStr("u2")
  /\ worker["w1"].transaction = [payment_uuid |-> JStr("u1")]
  /\ Rejected(worker["w1"])
  /\ worker["w1"].fetches = 0

(***************************************************************************)
(* C19.  As long as the provider reports the same status for a payment id, *)
(* no sequence or interleaving of deliveries invokes both                  *)
(* handle_payment_succeeded and handle_payment_canceled for it: the status *)
(* the provider reported decides the hook ({3} and {4,5,6} are disjoint).  *)
(* The Transaction's own status is never read, so once the provider's      *)
(* status goes from 3 to one of 4, 5, 6 both hooks can be invoked for the  *)
(* same payment id.                                                        *)
(***************************************************************************)
C19_HooksExclusive ==
  \A e1 \in hook_log : \A e2 \in hook_log :
    (e1.payment_id = e2.payment_id /\ e1.status = e2.status) => e1.hook = e2.hook

\* the provider said 3, then 4: the succeeded hook ran for the legacy row, it
\* is SUCCEEDED, and the canceled hook is being invoked for it
C19_Witness ==
  /\ \E e \in hook_log :
       e.payment_id = "1" /\ e.hook = "handle_payment_succeeded" /\ e.status = JInt(3)
  /\ \E e \in hook_log :
       e.payment_id = "1" /\ e.hook = "handle_payment_canceled" /\ e.status = JInt(4)
  /\ store["1"].status = SUCCEEDED
  /\ \E w \in Workers :
       /\ worker[w].pc = "hook"
       /\ worker[w].hooks = << <<"handle_payment_canceled", "1">> >>

(***************************************************************************)
(* C20.  Every Transaction created by create_payment has a non-empty       *)
(* payment_uuid from the moment it exists, so a webhook for such a         *)
(* Transaction always takes the verify branch and the reconciler never     *)
(* writes to the store for it; the bind branch is reached only for         *)
(* Transactions that were stored without a payment_uuid by other means.    *)
(***************************************************************************)
C20_CreatedAlwaysBound ==
  /\ \A id \in StoreIds \ LegacyIds :
       store[id] # JNull =>
         /\ store[id].payment_uuid \notin {JNull, JStr("")}
         /\ store[id].payment_uuid.v \in issued
  /\ \A w \in Workers :
       LET r == worker[w] IN
       /\ (Found(r) /\ r.payment_id \notin LegacyIds) =>
            /\ r.updates = 0
            /\ r.pc # "update"
            /\ r.transaction.payment_uuid \notin {JNull, JStr("")}
       /\ (r.updates = 1 \/ r.pc = "update") => r.payment_id \in LegacyIds

\* the webhook for the payment create_payment stored under id 2 with uuid g1
\* is verified and ACCEPTED without an update
C20_Witness ==
  /\ store["2"] # JNull
  /\ store["2"].payment_uuid = JStr("g1")
  /\ \E w \in Workers :
       /\ worker[w].payment_id = "2"
       /\ worker[w].transaction = [payment_uuid |-> JStr("g1")]
       /\ worker[w].updates = 0
       /\ worker[w].fetches = 1
       /\ worker[w].pc = "hook"

====
